---- MODULE Spec2Model ----
(***************************************************************************)
(* A model of gitstat (src/gitstat/gitstat.py): the classification of one  *)
(* working copy (checkrepo), the two batch runners built on                *)
(* multiprocessing.Pool (check_paths, check_paths_with_exit_code) and the  *)
(* pull command.                                                           *)
(*                                                                         *)
(* Every git invocation is an external process.  Its outcome (return code, *)
(* stdout, stderr) is a field of the record that describes the working     *)
(* copy; the Python functions that wrap the invocations are operators on   *)
(* that record.                                                            *)
(***************************************************************************)
EXTENDS Integers, Sequences, FiniteSets, TLC

\* ------------------------------------------------------------------------
\* Bounds
\* ------------------------------------------------------------------------
MaxRev == 3          \* number of distinct revision ids
NumPaths == 3        \* number of working copies
PoolSize == 2        \* worker processes of the Pool (cpu_count())
MaxRuns == 2         \* classifications of the same snapshot in a row

Revs == 1..MaxRev
Paths == 1..NumPaths
Workers == 1..PoolSize
URLs == {"u1", "u2"}

\* ------------------------------------------------------------------------
\* Python values: checkrepo and the probes discriminate on type(x) == int
\* ------------------------------------------------------------------------
PyInt == [type |-> "int", s |-> "", r |-> 0]          \* the -1 failure value
PyNone == [type |-> "None", s |-> "", r |-> 0]
PyStr(str) == [type |-> "str", s |-> str, r |-> 0]    \* a text (URL, kind)
PyRev(rev) == [type |-> "str", s |-> "rev", r |-> rev] \* a revision id text

\* type(v) == int
IsInt(v) == v.type = "int"

\* v1 == v2 on Python values
PyEq(v1, v2) == v1.type = v2.type /\ v1.s = v2.s /\ v1.r = v2.r

\* bool(v): an empty string and None are falsy, -1 is truthy
Truthy(v) ==
    CASE v.type = "int" -> TRUE
      [] v.type = "None" -> FALSE
      [] OTHER -> ~(v.s = "")

\* ------------------------------------------------------------------------
\* The outcome of every git command on one working copy
\* ------------------------------------------------------------------------
UrlOutcomes ==
    {[rc |-> 1, out |-> ""]} \cup {[rc |-> 0, out |-> u] : u \in {""} \cup URLs}
RevOutcomes ==
    {[rc |-> 128, out |-> 0]} \cup {[rc |-> 0, out |-> r] : r \in Revs}
RemoteOutcomes ==
    {[rc |-> 128, out |-> 0, err |-> "no upstream configured"],
     [rc |-> 128, out |-> 0, err |-> "bad revision"]}
    \cup {[rc |-> 0, out |-> r, err |-> ""] : r \in Revs}

Env ==
    [url : UrlOutcomes,             \* git config --get remote.origin.url
     local : RevOutcomes,           \* git rev-parse @
     remote : RemoteOutcomes,       \* git rev-parse @{u}
     base : RevOutcomes,            \* git merge-base @ @{u}
     index_rc : {0, 1},             \* git update-index --refresh
     stat_dirty : BOOLEAN,          \* the index holds stale stat data
     diff_files_rc : {0, 1},        \* git diff-files --quiet, index refreshed
     diff_index_rc : {0, 1},        \* git diff-index --cached --quiet HEAD
     ls_files_out : {"", "foo.txt"},\* git ls-files -o --exclude-standard
     diff_rc : {0, 1, 128}]         \* git diff --quiet @{u}..

\* ------------------------------------------------------------------------
\* The probes
\* ------------------------------------------------------------------------
get_repo_url(e) == IF e.url.rc # 0 THEN PyInt ELSE PyStr(e.url.out)

get_local(e) == IF e.local.rc # 0 THEN PyInt ELSE PyRev(e.local.out)

\* the pair (remote, changes), or -1
get_remote(e) ==
    IF e.remote.rc = 0
    THEN [type |-> "tuple", remote |-> PyRev(e.remote.out), changes |-> PyStr("")]
    ELSE IF e.remote.err = "no upstream configured"
         THEN [type |-> "tuple", remote |-> PyRev(e.remote.out),
               changes |-> PyStr("no-upstream-branch")]
         ELSE [type |-> "int", remote |-> PyInt, changes |-> PyInt]

update_index_unchecked(e) == PyNone
update_index(e) == IF e.index_rc # 0 THEN PyInt ELSE PyNone

get_base(e) == IF e.base.rc # 0 THEN PyInt ELSE PyRev(e.base.out)

\* git update-index --refresh with exit code 0 brings the stat data of the
\* index up to date
refresh_index(e) == [e EXCEPT !.stat_dirty = FALSE]

\* git diff-files reports an entry with stale stat data as changed
check_unstaged_changes(e) == e.stat_dirty \/ e.diff_files_rc # 0

check_uncommitted_changes(e) == e.diff_index_rc # 0

check_untracked_files(e) == ~(e.ls_files_out = "")

check_unpushed_commits(e) == e.diff_rc # 0

\* ------------------------------------------------------------------------
\* The tracking store: configparser sections in insertion order, the
\* options of every section, and the 'ignore' option of [DEFAULT]
\* ("unset" when the store has none)
\* ------------------------------------------------------------------------
SeqToSet(seq) == {seq[i] : i \in 1..Len(seq)}

has_section(cfg, path) == path \in SeqToSet(cfg.sections)

\* config[path]['url']; only read for an existing section
config_url(cfg, path) == PyStr(cfg.rec[path].url)

\* ------------------------------------------------------------------------
\* checkrepo
\* ------------------------------------------------------------------------
ChangeKinds ==
    {"unstaged", "uncommitted", "untracked", "unpushed", "pull-required",
     "diverged", "url-mismatch", "origin-url-error", "no-upstream-branch",
     "up-to-date"}

Contains(changes, kind) == \E i \in 1..Len(changes) : changes[i] = kind

\* what checkrepo hands back: a dict {'path', 'changes'}, None, the int -1,
\* or an exception that leaves the function; calls lists the probes that were
\* invoked, in order
Result(kind, path, changes, calls) ==
    [kind |-> kind, path |-> path, changes |-> changes, calls |-> calls]

url_check_abort_on_mismatch(path, cfg, e) ==
    LET origin_url == get_repo_url(e) IN
    IF ~Truthy(origin_url)
    THEN [raised |-> FALSE, changes |-> <<"origin-url-error">>]
    ELSE IF ~has_section(cfg, path)
         THEN [raised |-> TRUE, changes |-> <<>>]
         ELSE IF ~PyEq(origin_url, config_url(cfg, path))
              THEN [raised |-> TRUE, changes |-> <<"url-mismatch">>]
              ELSE [raised |-> FALSE, changes |-> <<>>]
\* the origin URL check: the changes it appends, or the KeyError of
\* config[path] for a path without a section
url_check(path, cfg, e) ==
    LET origin_url == get_repo_url(e) IN
    IF ~Truthy(origin_url)
    THEN [raised |-> FALSE, changes |-> <<"origin-url-error">>]
    ELSE IF ~has_section(cfg, path)
         THEN [raised |-> TRUE, changes |-> <<>>]
         ELSE IF ~PyEq(origin_url, config_url(cfg, path))
              THEN [raised |-> FALSE, changes |-> <<"url-mismatch">>]
              ELSE [raised |-> FALSE, changes |-> <<>>]

compare_revisions_without_elif(local, remote, base) ==
    IF PyEq(local, remote) THEN <<>>
    ELSE (IF PyEq(local, base) THEN <<"pull-required">> ELSE <<>>)
         \o (IF PyEq(remote, base) THEN <<>> ELSE <<"diverged">>)
compare_revisions_base_first(local, remote, base) ==
    IF PyEq(local, base) THEN <<"pull-required">>
    ELSE IF PyEq(local, remote) THEN <<>>
    ELSE IF PyEq(remote, base) THEN <<>>
    ELSE <<"diverged">>
\* compare local/remote/base revisions: the kinds to append
compare_revisions(local, remote, base) ==
    IF PyEq(local, remote) THEN <<>>
    ELSE IF PyEq(local, base) THEN <<"pull-required">>
    ELSE IF PyEq(remote, base) THEN <<>>
    ELSE <<"diverged">>

upstream_check_base_always(changes, calls, local, remote_result, e) ==
    LET base == get_base(e) IN
    IF Truthy(remote_result.changes)
    THEN [failed |-> FALSE,
          changes |-> Append(changes, remote_result.changes.s),
          calls |-> Append(calls, "get_base")]
    ELSE IF IsInt(base)
         THEN [failed |-> TRUE, changes |-> changes,
               calls |-> Append(calls, "get_base")]
         ELSE [failed |-> FALSE,
               changes |-> changes
                           \o compare_revisions(local, remote_result.remote, base),
               calls |-> Append(calls, "get_base")]
\* the branch on the result of get_remote: no upstream, or the base
\* comparison; failed when get_base returned -1
upstream_check(changes, calls, local, remote_result, e) ==
    IF Truthy(remote_result.changes)
    THEN [failed |-> FALSE,
          changes |-> Append(changes, remote_result.changes.s),
          calls |-> calls]
    ELSE LET base == get_base(e) IN
         IF IsInt(base)
         THEN [failed |-> TRUE, changes |-> changes,
               calls |-> Append(calls, "get_base")]
         ELSE [failed |-> FALSE,
               changes |-> changes
                           \o compare_revisions(local, remote_result.remote, base),
               calls |-> Append(calls, "get_base")]

tree_checks_elif(changes, e) ==
    changes
    \o (IF check_unstaged_changes(e) THEN <<"unstaged">>
        ELSE IF check_uncommitted_changes(e) THEN <<"uncommitted">>
        ELSE IF check_untracked_files(e) THEN <<"untracked">>
        ELSE <<>>)
tree_checks_untracked_first(changes, e) ==
    changes
    \o (IF check_untracked_files(e) THEN <<"untracked">> ELSE <<>>)
    \o (IF check_unstaged_changes(e) THEN <<"unstaged">> ELSE <<>>)
    \o (IF check_uncommitted_changes(e) THEN <<"uncommitted">> ELSE <<>>)
\* unstaged, uncommitted, untracked
tree_checks(changes, e) ==
    changes
    \o (IF check_unstaged_changes(e) THEN <<"unstaged">> ELSE <<>>)
    \o (IF check_uncommitted_changes(e) THEN <<"uncommitted">> ELSE <<>>)
    \o (IF check_untracked_files(e) THEN <<"untracked">> ELSE <<>>)

TreeCalls ==
    <<"check_unstaged_changes", "check_uncommitted_changes",
      "check_untracked_files">>

unpushed_check_ungated(changes, calls, e) ==
    [changes |-> IF check_unpushed_commits(e)
                 THEN Append(changes, "unpushed") ELSE changes,
     calls |-> Append(calls, "check_unpushed_commits")]
\* the unpushed check, skipped when a pull is required
unpushed_check(changes, calls, e) ==
    IF ~Contains(changes, "pull-required")
    THEN [changes |-> IF check_unpushed_commits(e)
                      THEN Append(changes, "unpushed") ELSE changes,
          calls |-> Append(calls, "check_unpushed_commits")]
    ELSE [changes |-> changes, calls |-> calls]

finalize_always(path, changes, calls, even_if_uptodate) ==
    Result("dict", path,
           IF even_if_uptodate THEN Append(changes, "up-to-date") ELSE changes,
           calls)
finalize_dict(path, changes, calls, even_if_uptodate) ==
    Result("dict", path,
           IF changes = <<>> /\ even_if_uptodate
           THEN <<"up-to-date">> ELSE changes,
           calls)
\* up-to-date, and the choice between a dict and None
finalize(path, changes, calls, even_if_uptodate) ==
    LET final == IF changes = <<>> /\ even_if_uptodate
                 THEN <<"up-to-date">> ELSE changes
    IN  IF final # <<>>
        THEN Result("dict", path, final, calls)
        ELSE Result("None", path, <<>>, calls)

tree_env_stale(e) == e
\* the working copy as the working-tree checks find it: update_index has
\* run before them
tree_env(e) == refresh_index(e)

checkrepo(path, even_if_uptodate, cfg, e) ==
    LET u == url_check(path, cfg, e)
        c1 == <<"get_repo_url">>
    IN
    IF u.raised THEN Result("KeyError", path, <<>>, c1)
    ELSE
    LET local == get_local(e)
        c2 == Append(c1, "get_local")
    IN
    IF IsInt(local) THEN Result("int", path, <<>>, c2)
    ELSE
    LET remote_result == get_remote(e)
        c3 == Append(c2, "get_remote")
    IN
    IF IsInt(remote_result) THEN Result("int", path, <<>>, c3)
    ELSE
    LET up == upstream_check(u.changes, c3, local, remote_result, e) IN
    IF up.failed THEN Result("int", path, <<>>, up.calls)
    ELSE
    LET result == update_index(e)
        c5 == Append(up.calls, "update_index")
    IN
    IF IsInt(result) THEN Result("int", path, <<>>, c5)
    ELSE
    LET fresh == tree_env(e)
        un == unpushed_check(tree_checks(up.changes, fresh), c5 \o TreeCalls,
                             fresh)
    IN  finalize(path, un.changes, un.calls, even_if_uptodate)

\* the working copy after checkrepo: the index is refreshed unless the
\* classification ended before or in update_index
index_after(res, e) ==
    IF res.kind \in {"dict", "None", "True", "False"}
    THEN refresh_index(e) ELSE e

\* checkrepo(path) with the default even_if_uptodate: True, False, -1, or
\* the exception of checkrepo
checkrepo_bool(path, even_if_uptodate, cfg, e) ==
    LET result == checkrepo(path, FALSE, cfg, e) IN
    IF result.kind = "dict" THEN [result EXCEPT !.kind = "True"]
    ELSE IF result.kind = "None" THEN [result EXCEPT !.kind = "False"]
    ELSE result

\* ------------------------------------------------------------------------
\* State
\* ------------------------------------------------------------------------
VARIABLES
    config,     \* the tracking store as read by read_config()
    repos,      \* path -> outcome of the git commands on that working copy
    fs,         \* path -> "git" (working copy), "dir" (no .git) or "missing"
    flag,       \* even_if_uptodate / --all
    runs,       \* classifications of the snapshot done so far
    result,     \* what the last checkrepo handed back
    cmd,        \* the command of this invocation
    stage,      \* where the main process is
    tasks,      \* the iterable handed to the Pool
    next,       \* index of the next task a worker will take
    busy,       \* worker -> index of the task it runs, 0 when idle
    results,    \* task index -> result, NoResult while not ready
    selected,   \* the paths get_paths kept for this invocation
    output,     \* what the batch runner returned to the command
    outcome,    \* how the invocation ended
    pulled,     \* the paths pull_from_origin was called with
    fetched,    \* the paths fetch_from_origin was called with
    report,     \* the lines check printed, as the items they show
    args,       \* the path arguments of the command
    rejected,   \* the paths a store command reported with print_error
    written,    \* write_config() was called in this invocation
    clones      \* the git clone commands showclone printed

vars == <<config, repos, fs, flag, runs, result, cmd, stage, tasks, next,
          busy, results, selected, output, outcome, pulled, fetched, report,
          args, rejected, written, clones>>

storeVars == <<rejected, written, clones>>

batchVars == <<cmd, stage, tasks, next, busy, results, selected, output,
               outcome, pulled, fetched, report, args, rejected, written,
               clones>>

NoResult == Result("pending", 0, <<>>, <<>>)

\* the store: sections in insertion order, their options, [DEFAULT] ignore
Store(sections, rec, dflt) ==
    [sections |-> sections, rec |-> rec, dflt |-> dflt]

BatchIdle ==
    /\ cmd = "none"
    /\ stage = "idle"
    /\ tasks = <<>>
    /\ next = 1
    /\ busy = [w \in Workers |-> 0]
    /\ results = <<>>
    /\ selected = <<>>
    /\ output = <<>>
    /\ outcome = "running"
    /\ pulled = <<>>
    /\ fetched = <<>>
    /\ report = <<>>
    /\ args = <<>>
    /\ rejected = <<>>
    /\ written = FALSE
    /\ clones = <<>>

\* ------------------------------------------------------------------------
\* Classification of one snapshot: checkrepo(path, even_if_uptodate) on a
\* path that is untracked, or tracked with either URL
\* ------------------------------------------------------------------------
ThePath == 1

ClassifyStores ==
    {Store(<<>>, <<>>, "unset")}
    \cup {Store(<<ThePath>>, [p \in {ThePath} |-> [url |-> u, ignore |-> "unset"]],
                "unset") : u \in URLs}

ClassifyInit ==
    /\ config \in ClassifyStores
    /\ repos \in [{ThePath} -> Env]
    /\ fs = [p \in {ThePath} |-> "git"]
    /\ flag \in BOOLEAN
    /\ runs = 0
    /\ result = NoResult
    /\ BatchIdle

Classify ==
    /\ runs < MaxRuns
    /\ result' = checkrepo(ThePath, flag, config, repos[ThePath])
    /\ repos' = [repos EXCEPT
                    ![ThePath] = index_after(result', repos[ThePath])]
    /\ runs' = runs + 1
    /\ UNCHANGED <<config, fs, flag>>
    /\ UNCHANGED batchVars

ClassifyNext == Classify

SpecClassify == ClassifyInit /\ [][ClassifyNext]_vars

\* ------------------------------------------------------------------------
\* Properties of one classification
\* ------------------------------------------------------------------------
Classified == runs >= 1
Snapshot == repos[ThePath]
NotAborted == result.kind \in {"dict", "None"}

NoUpstream ==
    Snapshot.remote.rc # 0 /\ Snapshot.remote.err = "no upstream configured"

CleanTree ==
    /\ ~check_unstaged_changes(Snapshot)
    /\ ~check_uncommitted_changes(Snapshot)
    /\ ~check_untracked_files(Snapshot)

MatchingTrackedURL ==
    /\ has_section(config, ThePath)
    /\ Snapshot.url.rc = 0
    /\ Snapshot.url.out = config.rec[ThePath].url

\* the snapshot gives no reason to append any kind: the origin URL is the
\* recorded one, the branch is level with or ahead of its upstream, the tree
\* is clean and the diff against the upstream is empty
NothingToReport ==
    /\ MatchingTrackedURL
    /\ Snapshot.remote.rc = 0
    /\ Snapshot.local.rc = 0
    /\ Snapshot.base.rc = 0
    /\ \/ Snapshot.local.out = Snapshot.remote.out
       \/ Snapshot.remote.out = Snapshot.base.out
    /\ CleanTree
    /\ ~check_unpushed_commits(Snapshot)

\* C1: the changes of one classification never hold both pull-required and
\* unpushed, whatever the probes return.
C1_PullRequiredExcludesUnpushed ==
    Classified =>
        ~(Contains(result.changes, "pull-required")
          /\ Contains(result.changes, "unpushed"))

\* a pull is required and the diff against the upstream is not empty
C1_Witness ==
    /\ Classified
    /\ Contains(result.changes, "pull-required")
    /\ check_unpushed_commits(Snapshot)

\* C2: with 'no upstream configured' the changes never hold pull-required,
\* diverged or unpushed, and with a clean tree and a matching tracked URL
\* they are exactly [no-upstream-branch].
C2_NoUpstreamOnlyNoUpstreamBranch ==
    (Classified /\ NoUpstream /\ NotAborted) =>
        /\ ~Contains(result.changes, "pull-required")
        /\ ~Contains(result.changes, "diverged")
        /\ ~Contains(result.changes, "unpushed")
        /\ (CleanTree /\ MatchingTrackedURL)
               => result.changes = <<"no-upstream-branch">>

\* the probe whose failure ended the classification, if any
Failed(probe) ==
    /\ Contains(result.calls, probe)
    /\ CASE probe = "get_local" -> Snapshot.local.rc # 0
         [] probe = "get_remote" ->
                Snapshot.remote.rc # 0
                /\ Snapshot.remote.err # "no upstream configured"
         [] probe = "get_base" -> Snapshot.base.rc # 0
         [] probe = "update_index" -> Snapshot.index_rc # 0
         [] OTHER -> FALSE

FatalProbes == {"get_local", "get_remote", "get_base", "update_index"}

\* C4: a failure of get_local, get_remote (other than no upstream), get_base
\* or update_index ends the classification with -1, without any changes, the
\* failed probe is the last one invoked, and no probe is invoked twice.
C4_FirstFailureIsFatal ==
    Classified =>
        /\ \A probe \in FatalProbes :
               Failed(probe) =>
                   /\ result.kind = "int"
                   /\ result.changes = <<>>
                   /\ result.calls[Len(result.calls)] = probe
        /\ \A i, j \in 1..Len(result.calls) :
               result.calls[i] = result.calls[j] => i = j

\* the index refresh fails after url-mismatch was appended
C4_Witness ==
    /\ Classified
    /\ Failed("update_index")
    /\ has_section(config, ThePath)
    /\ Snapshot.url.rc = 0
    /\ Snapshot.url.out # ""
    /\ Snapshot.url.out # config.rec[ThePath].url

\* C9: up-to-date is in changes iff even_if_uptodate was requested and the
\* snapshot gave no other kind, and then it is the only element.
C9_UpToDateIffRequestedAndNothingElse ==
    (Classified /\ NotAborted) =>
        /\ Contains(result.changes, "up-to-date") <=> (flag /\ NothingToReport)
        /\ Contains(result.changes, "up-to-date")
               => result.changes = <<"up-to-date">>

C9_Witness ==
    /\ Classified
    /\ flag
    /\ result.kind = "dict"
    /\ result.changes = <<"up-to-date">>

\* C10: a classification that was not aborted returns None exactly when the
\* snapshot gave no kind and even_if_uptodate is false, and otherwise a dict
\* with a non-empty changes list; for a repo level with its upstream, with a
\* clean tree and the recorded URL that is None without the flag and
\* [up-to-date] with it.
C10_NoneIffNothingAndNotRequested ==
    (Classified /\ NotAborted) =>
        /\ result.kind = "None" <=> (NothingToReport /\ ~flag)
        /\ result.kind = "dict" => result.changes # <<>>
        /\ (/\ NothingToReport
            /\ Snapshot.local.out = Snapshot.remote.out)
               => IF flag
                  THEN result.kind = "dict" /\ result.changes = <<"up-to-date">>
                  ELSE result.kind = "None"

C10_Witness ==
    /\ Classified
    /\ ~flag
    /\ result.kind = "None"
    /\ Snapshot.local.out = Snapshot.remote.out
    /\ Snapshot.remote.rc = 0

HasUpstream == Snapshot.remote.rc = 0

\* C11: with an upstream, the base comparison appends nothing when local ==
\* remote, pull-required when local == base # remote, nothing when remote ==
\* base and local differs from both, and diverged when the three differ
\* pairwise; never no-upstream-branch.
C11_BaseComparison ==
    (Classified /\ NotAborted /\ HasUpstream) =>
        LET local == Snapshot.local.out
            remote == Snapshot.remote.out
            base == Snapshot.base.out
        IN  /\ Contains(result.changes, "pull-required")
                   <=> (local # remote /\ local = base)
            /\ Contains(result.changes, "diverged")
                   <=> (local # remote /\ local # base /\ remote # base)
            /\ ~Contains(result.changes, "no-upstream-branch")

\* local == remote while the merge base differs from both
C11_Witness ==
    /\ Classified
    /\ NotAborted
    /\ HasUpstream
    /\ Snapshot.local.out = Snapshot.remote.out
    /\ Snapshot.base.out # Snapshot.local.out

\* git config --get remote.origin.url failed or printed nothing
NoOriginURL == Snapshot.url.rc # 0 \/ Snapshot.url.out = ""

\* C12: when no origin URL is obtained, origin-url-error is appended, the
\* stored URL is not compared (no url-mismatch) and the revision checks run.
C12_NoURLIsOriginUrlError ==
    (Classified /\ NoOriginURL) =>
        /\ result.kind # "KeyError"
        /\ Contains(result.calls, "get_local")
        /\ NotAborted =>
               /\ Contains(result.changes, "origin-url-error")
               /\ ~Contains(result.changes, "url-mismatch")

\* C13: a path without a record in the store is classified without the URL
\* comparison: no exception, no url-mismatch, and the revision checks run.
C13_UntrackedPathSkipsComparison ==
    (Classified /\ ~has_section(config, ThePath)) =>
        /\ result.kind # "KeyError"
        /\ ~Contains(result.changes, "url-mismatch")
        /\ Contains(result.calls, "get_local")

OriginDiffersFromRecord ==
    /\ has_section(config, ThePath)
    /\ Snapshot.url.rc = 0
    /\ Snapshot.url.out # ""
    /\ Snapshot.url.out # config.rec[ThePath].url

\* the same snapshot classified against a record that holds its origin URL
MatchingTwin ==
    checkrepo(ThePath, FALSE,
              [config EXCEPT !.rec[ThePath].url = Snapshot.url.out], Snapshot)

\* C14: when the origin URL differs from the recorded one, url-mismatch is
\* appended and the classification goes on: the same probes run as with a
\* matching URL, and their kinds follow url-mismatch in the same result.
C14_UrlMismatchContinues ==
    (Classified /\ OriginDiffersFromRecord) =>
        /\ result.kind # "KeyError"
        /\ result.calls = MatchingTwin.calls
        /\ NotAborted =>
               /\ result.kind = "dict"
               /\ result.changes = <<"url-mismatch">> \o MatchingTwin.changes

\* url-mismatch followed by the kinds of the later steps
C14_Witness ==
    /\ Classified
    /\ OriginDiffersFromRecord
    /\ result.kind = "dict"
    /\ Len(result.changes) >= 3
    /\ Contains(result.changes, "untracked")

\* C15: in a classification that was not aborted every working-tree check
\* contributes on its own: unstaged, uncommitted and untracked iff their
\* check is true, unpushed iff pull-required was not appended and the diff
\* check is true; a repo whose only difference is an untracked file gives
\* exactly [untracked].
C15_TreeChecksIndependent ==
    (Classified /\ NotAborted) =>
        /\ Contains(result.changes, "unstaged")
               <=> check_unstaged_changes(Snapshot)
        /\ Contains(result.changes, "uncommitted")
               <=> check_uncommitted_changes(Snapshot)
        /\ Contains(result.changes, "untracked")
               <=> check_untracked_files(Snapshot)
        /\ Contains(result.changes, "unpushed")
               <=> (/\ ~Contains(result.changes, "pull-required")
                    /\ check_unpushed_commits(Snapshot))
        /\ (/\ MatchingTrackedURL
            /\ HasUpstream
            /\ Snapshot.local.out = Snapshot.remote.out
            /\ ~check_unstaged_changes(Snapshot)
            /\ ~check_uncommitted_changes(Snapshot)
            /\ check_untracked_files(Snapshot)
            /\ ~check_unpushed_commits(Snapshot))
               => result.changes = <<"untracked">>

\* staged changes, untracked files and unpushed commits at once
C15_Witness ==
    /\ Classified
    /\ NotAborted
    /\ Contains(result.changes, "uncommitted")
    /\ Contains(result.changes, "untracked")
    /\ Contains(result.changes, "unpushed")
    /\ ~Contains(result.changes, "unstaged")

\* the position of a kind in the evaluation order
Rank(kind) ==
    CASE kind \in {"origin-url-error", "url-mismatch"} -> 1
      [] kind \in {"no-upstream-branch", "pull-required", "diverged"} -> 2
      [] kind = "unstaged" -> 3
      [] kind = "uncommitted" -> 4
      [] kind = "untracked" -> 5
      [] kind = "unpushed" -> 6
      [] OTHER -> 7

\* C16: the changes follow the evaluation order: at most one URL kind, then
\* at most one upstream kind, then unstaged, uncommitted, untracked,
\* unpushed; or they are exactly [up-to-date].
C16_ChangesInEvaluationOrder ==
    Classified =>
        \/ result.changes = <<"up-to-date">>
        \/ /\ \A i \in 1..Len(result.changes) : Rank(result.changes[i]) <= 6
           /\ \A i, j \in 1..Len(result.changes) :
                  i < j => Rank(result.changes[i]) < Rank(result.changes[j])

\* all six positions are taken
C16_Witness ==
    /\ Classified
    /\ Len(result.changes) = 6

\* C17: classification is idempotent: a second run of checkrepo on the same
\* path with the same flag, nothing but the first run having touched the
\* working copy or the store, returns what the first run returned (the same
\* changes, twice no status, or twice a failure)
C17_Idempotent ==
    [][runs >= 1 => result' = result]_vars

\* a second run has followed a first one that went through the index refresh
\* and the working-tree checks
C17_Witness ==
    /\ runs = 2
    /\ result.kind = "dict"
    /\ Contains(result.calls, "update_index")
    /\ ~check_unstaged_changes(Snapshot)

\* the place of a probe in the order of checkrepo
ProbeRank(probe) ==
    CASE probe = "get_repo_url" -> 1
      [] probe = "get_local" -> 2
      [] probe = "get_remote" -> 3
      [] probe = "get_base" -> 4
      [] probe = "update_index" -> 5
      [] probe = "check_unstaged_changes" -> 6
      [] probe = "check_uncommitted_changes" -> 7
      [] probe = "check_untracked_files" -> 8
      [] probe = "check_unpushed_commits" -> 9
      [] OTHER -> 0

Called(probe) == Contains(result.calls, probe)

\* C26: one classification invokes the probes in the order origin URL, local
\* revision, remote revision, merge base, index refresh, unstaged, staged,
\* untracked, unpushed, each at most once; the merge base iff the remote
\* probe returned an upstream revision; the index refresh in every run that
\* did not end before it, with or without upstream; and a working-tree check
\* only after the index refresh succeeded.
C26_ProbeOrder ==
    Classified =>
        /\ \A i \in 1..Len(result.calls) : ProbeRank(result.calls[i]) > 0
        /\ \A i, j \in 1..Len(result.calls) :
               i < j => ProbeRank(result.calls[i]) < ProbeRank(result.calls[j])
        /\ Called("get_base") <=> (Called("get_remote") /\ HasUpstream)
        /\ Called("update_index")
               <=> ~(\/ result.kind = "KeyError"
                     \/ Failed("get_local")
                     \/ Failed("get_remote")
                     \/ Failed("get_base"))
        /\ \A probe \in {"check_unstaged_changes", "check_uncommitted_changes",
                         "check_untracked_files", "check_unpushed_commits"} :
               Called(probe)
                   => Called("update_index") /\ Snapshot.index_rc = 0

\* a classification without upstream went through the index refresh and all
\* four working-tree checks
C26_Witness ==
    /\ Classified
    /\ NoUpstream
    /\ result.calls = <<"get_repo_url", "get_local", "get_remote",
                        "update_index", "check_unstaged_changes",
                        "check_uncommitted_changes", "check_untracked_files",
                        "check_unpushed_commits">>

\* ------------------------------------------------------------------------
\* get_paths and the batch runners
\* ------------------------------------------------------------------------
\* config[path]['ignore']: the option of the section, else the one of
\* [DEFAULT], else KeyError
config_ignore(cfg, path) ==
    IF cfg.rec[path].ignore # "unset" THEN cfg.rec[path].ignore
    ELSE IF cfg.dflt # "unset" THEN cfg.dflt
    ELSE "KeyError"

get_paths_given_paths_exempt(paths, include_ignored, cfg, disk) ==
    LET given == IF paths = <<>> THEN cfg.sections ELSE paths
        Raises(p) == has_section(cfg, p) /\ config_ignore(cfg, p) = "KeyError"
        Ignored(p) ==
            has_section(cfg, p) /\ config_ignore(cfg, p) = "true"
            /\ ~include_ignored /\ paths = <<>>
        Keep(p) == ~Ignored(p) /\ disk[p] = "git"
    IN  IF \E i \in 1..Len(given) : Raises(given[i])
        THEN [raised |-> TRUE, paths |-> <<>>]
        ELSE [raised |-> FALSE, paths |-> SelectSeq(given, Keep)]
\* the paths to work on, or the KeyError of the ignore lookup
get_paths(paths, include_ignored, cfg, disk) ==
    LET given == IF paths = <<>> THEN cfg.sections ELSE paths
        Raises(p) == has_section(cfg, p) /\ config_ignore(cfg, p) = "KeyError"
        Ignored(p) ==
            has_section(cfg, p) /\ config_ignore(cfg, p) = "true"
            /\ ~include_ignored
        Keep(p) == ~Ignored(p) /\ disk[p] = "git"
    IN  IF \E i \in 1..Len(given) : Raises(given[i])
        THEN [raised |-> TRUE, paths |-> <<>>]
        ELSE [raised |-> FALSE, paths |-> SelectSeq(given, Keep)]

IsDict(res) == res.kind = "dict"

check_paths_loop_break_on_none(res) ==
    LET BeforeNone(i) == \A j \in 1..i : res[j].kind # "None"
        last == IF \E i \in 1..Len(res) : ~BeforeNone(i)
                THEN (CHOOSE i \in 1..Len(res) :
                          ~BeforeNone(i) /\ \A j \in 1..(i - 1) : BeforeNone(j))
                     - 1
                ELSE Len(res)
    IN  IF \E i \in 1..last : res[i].kind = "int"
        THEN [raised |-> TRUE, output |-> <<>>]
        ELSE [raised |-> FALSE, output |-> SelectSeq(SubSeq(res, 1, last), IsDict)]
\* the loop of check_paths over the list starmap returned: None is skipped,
\* the assert admits dicts only
check_paths_loop(res) ==
    IF \E i \in 1..Len(res) : res[i].kind = "int"
    THEN [raised |-> TRUE, output |-> <<>>]
    ELSE [raised |-> FALSE, output |-> SelectSeq(res, IsDict)]

exit_code_loop_int_is_true(res) ==
    IF \E i \in 1..Len(res) : res[i].kind \in {"True", "int"} THEN 1 ELSE 0
\* the loop of check_paths_with_exit_code: an int is skipped, the first True
\* sets exit code 1
exit_code_loop(res) ==
    IF \E i \in 1..Len(res) : res[i].kind = "True" THEN 1 ELSE 0

OnlyPullRequired(item) == item.changes = <<"pull-required">>

\* the paths pull keeps from the output of check_paths
paths_to_pull(out) ==
    LET kept == SelectSeq(out, OnlyPullRequired)
    IN  [i \in 1..Len(kept) |-> kept[i].path]

\* pull_from_origin: the path, or -1 when git pull failed
pull_from_origin(path, rc) ==
    IF rc # 0 THEN Result("int", path, <<>>, <<"pull_from_origin">>)
    ELSE Result("str", path, <<>>, <<"pull_from_origin">>)

\* fetch_from_origin: the path, or -1 when git fetch failed
fetch_from_origin(path, rc) ==
    IF rc # 0 THEN Result("int", path, <<>>, <<"fetch_from_origin">>)
    ELSE Result("str", path, <<>>, <<"fetch_from_origin">>)

imap_loop_aborts_on_error(res) == res.kind = "int"
\* the loops of fetch and pull over imap_unordered go on to the next result
\* whatever the result is
imap_loop_aborts(res) == FALSE

\* insertion of an item behind the items whose path is not greater
insert_by_path(item, items) ==
    LET NotGreater(x) == x.path <= item.path
        Greater(x) == x.path > item.path
    IN  SelectSeq(items, NotGreater) \o <<item>> \o SelectSeq(items, Greater)

RECURSIVE sorted_by_path(_)
\* sorted(result, key=itemgetter('path')): ascending and stable
sorted_by_path(items) ==
    IF items = <<>> THEN <<>>
    ELSE insert_by_path(items[Len(items)],
                        sorted_by_path(SubSeq(items, 1, Len(items) - 1)))

report_lines_unsorted(out) == out
\* the lines of the report of check, one for each item of the output
report_lines(out) == sorted_by_path(out)

Pending(n) == [i \in 1..n |-> NoResult]

AllReady ==
    /\ \A i \in 1..Len(tasks) : results[i].kind # "pending"
    /\ \A w \in Workers : busy[w] = 0

\* some result made the loop over imap_unordered leave the Pool
ImapAborted == \E i \in 1..Len(tasks) : imap_loop_aborts(results[i])

ImapOver_after_abort_only ==
    /\ \A w \in Workers : busy[w] = 0
    /\ ImapAborted
\* the loop over imap_unordered is left and the Pool is closed
ImapOver ==
    /\ \A w \in Workers : busy[w] = 0
    /\ ImapAborted \/ \A i \in 1..Len(tasks) : results[i].kind # "pending"

\* an exception of a task, which starmap raises in the main process
PoolRaised == \E i \in 1..Len(tasks) : results[i].kind = "KeyError"

\* ------------------------------------------------------------------------
\* The working copies and stores of the batch model
\* ------------------------------------------------------------------------
\* a working copy with origin URL u1 and upstream: HEAD unreadable or not,
\* behind its upstream or level with it, with or without an untracked file
BatchEnv(local_ok, behind, untracked) ==
    [url |-> [rc |-> 0, out |-> "u1"],
     local |-> IF local_ok THEN [rc |-> 0, out |-> 1] ELSE [rc |-> 128, out |-> 0],
     remote |-> [rc |-> 0, out |-> IF behind THEN 2 ELSE 1, err |-> ""],
     base |-> [rc |-> 0, out |-> 1],
     index_rc |-> 0,
     stat_dirty |-> FALSE,
     diff_files_rc |-> 0,
     diff_index_rc |-> 0,
     ls_files_out |-> IF untracked THEN "foo.txt" ELSE "",
     diff_rc |-> IF behind THEN 1 ELSE 0]

BatchEnvs ==
    {BatchEnv(TRUE, FALSE, FALSE), BatchEnv(TRUE, TRUE, FALSE),
     BatchEnv(TRUE, TRUE, TRUE), BatchEnv(FALSE, FALSE, FALSE)}

Ascending(set) ==
    CHOOSE seq \in [1..Cardinality(set) -> set] :
        \A i, j \in 1..Cardinality(set) : i < j => seq[i] < seq[j]

\* stores with any set of tracked paths, with the [DEFAULT] ignore option
\* written by the earlier revision or without it
BatchStores ==
    {Store(Ascending(tracked),
           [p \in tracked |-> [url |-> "u1", ignore |-> "unset"]],
           dflt) : tracked \in SUBSET Paths, dflt \in {"false", "unset"}}

\* the path arguments of a command: none, or every path in descending order
ArgLists == {<<>>, [i \in 1..NumPaths |-> NumPaths + 1 - i]}

\* the classification of a path without a section ends at config[path],
\* before any other probe: one working copy stands for all of them
Init ==
    /\ config \in BatchStores
    /\ repos \in [Paths -> BatchEnvs]
    /\ \A p \in Paths :
           ~has_section(config, p) => repos[p] = BatchEnv(TRUE, FALSE, FALSE)
    /\ fs = [p \in Paths |-> "git"]
    /\ flag = FALSE
    /\ runs = 0
    /\ result = NoResult
    /\ BatchIdle

\* ------------------------------------------------------------------------
\* The commands
\* ------------------------------------------------------------------------
Finish(how) ==
    /\ outcome' = how
    /\ stage' = "done"

StartPool(paths) ==
    /\ stage' = "starmap"
    /\ tasks' = paths
    /\ selected' = paths
    /\ results' = Pending(Len(paths))
    /\ UNCHANGED outcome

\* check up to the call of starmap
check(path, all, include_ignored, quiet) ==
    /\ stage = "idle"
    /\ cmd' = IF quiet THEN "quiet" ELSE "check"
    /\ flag' = all
    /\ IF path = <<>> /\ Len(config.sections) = 0
       THEN Finish("usage") /\ UNCHANGED <<tasks, selected, results>>
       ELSE LET kept == get_paths(path, include_ignored, config, fs) IN
            IF kept.raised
            THEN Finish("KeyError") /\ UNCHANGED <<tasks, selected, results>>
            ELSE StartPool(kept.paths)
    /\ UNCHANGED <<config, repos, fs, runs, result, next, busy, output, pulled>>
    /\ args' = path
    /\ UNCHANGED <<fetched, report>>
    /\ UNCHANGED storeVars

\* pull up to the call of starmap in check_paths
pull(path, include_ignored) ==
    /\ stage = "idle"
    /\ cmd' = "pull"
    /\ flag' = FALSE
    /\ LET kept == get_paths(path, include_ignored, config, fs) IN
       IF kept.raised
       THEN Finish("KeyError") /\ UNCHANGED <<tasks, selected, results>>
       ELSE IF Len(kept.paths) = 0
            THEN Finish("exit0") /\ UNCHANGED <<tasks, selected, results>>
            ELSE StartPool(kept.paths)
    /\ UNCHANGED <<config, repos, fs, runs, result, next, busy, output, pulled>>
    /\ args' = path
    /\ UNCHANGED <<fetched, report>>
    /\ UNCHANGED storeVars

\* fetch up to the call of imap_unordered
fetch(path, include_ignored) ==
    /\ stage = "idle"
    /\ cmd' = "fetch"
    /\ LET kept == get_paths(path, include_ignored, config, fs) IN
       IF kept.raised
       THEN Finish("KeyError") /\ UNCHANGED <<tasks, selected, results>>
       ELSE IF Len(kept.paths) = 0
            THEN Finish("exit0") /\ UNCHANGED <<tasks, selected, results>>
            ELSE /\ stage' = "imap"
                 /\ tasks' = kept.paths
                 /\ selected' = kept.paths
                 /\ results' = Pending(Len(kept.paths))
                 /\ UNCHANGED outcome
    /\ UNCHANGED <<config, repos, fs, flag, runs, result, next, busy, output,
                   pulled>>
    /\ args' = path
    /\ UNCHANGED <<fetched, report>>
    /\ UNCHANGED storeVars

take_task_while_busy(w) ==
    /\ stage \in {"starmap", "imap"}
    /\ next <= Len(tasks)
    /\ stage = "imap" => ~ImapAborted
    /\ busy' = [busy EXCEPT ![w] = next]
    /\ next' = next + 1
    /\ pulled' = IF stage = "imap" /\ cmd = "pull"
                 THEN Append(pulled, tasks[next]) ELSE pulled
    /\ fetched' = IF stage = "imap" /\ cmd = "fetch"
                  THEN Append(fetched, tasks[next]) ELSE fetched
    /\ UNCHANGED <<config, repos, fs, flag, runs, result, cmd, stage, tasks,
                   results, selected, output, outcome, report>>
    /\ UNCHANGED args
    /\ UNCHANGED storeVars
\* an idle worker takes the next task of the queue
take_task(w) ==
    /\ stage \in {"starmap", "imap"}
    /\ busy[w] = 0
    /\ next <= Len(tasks)
    /\ stage = "imap" => ~ImapAborted
    /\ busy' = [busy EXCEPT ![w] = next]
    /\ next' = next + 1
    /\ pulled' = IF stage = "imap" /\ cmd = "pull"
                 THEN Append(pulled, tasks[next]) ELSE pulled
    /\ fetched' = IF stage = "imap" /\ cmd = "fetch"
                  THEN Append(fetched, tasks[next]) ELSE fetched
    /\ UNCHANGED <<config, repos, fs, flag, runs, result, cmd, stage, tasks,
                   results, selected, output, outcome, report>>
    /\ UNCHANGED args
    /\ UNCHANGED storeVars

\* a worker completes checkrepo or checkrepo_bool
finish_check(w) ==
    /\ stage = "starmap"
    /\ busy[w] # 0
    /\ LET i == busy[w]
           path == tasks[i]
       IN  /\ results' =
               [results EXCEPT ![i] =
                   IF cmd = "quiet"
                   THEN checkrepo_bool(path, flag, config, repos[path])
                   ELSE checkrepo(path, flag, config, repos[path])]
           /\ repos' = [repos EXCEPT
                           ![path] = index_after(results'[i], repos[path])]
    /\ busy' = [busy EXCEPT ![w] = 0]
    /\ UNCHANGED <<config, fs, flag, runs, result, cmd, stage, tasks,
                   next, selected, output, outcome, pulled>>
    /\ UNCHANGED <<fetched, report>>
    /\ UNCHANGED args
    /\ UNCHANGED storeVars

\* a worker completes pull_from_origin
finish_pull(w) ==
    /\ cmd = "pull"
    /\ stage = "imap"
    /\ busy[w] # 0
    /\ \E rc \in {0, 1} :
           results' = [results EXCEPT
                          ![busy[w]] = pull_from_origin(tasks[busy[w]], rc)]
    /\ busy' = [busy EXCEPT ![w] = 0]
    /\ UNCHANGED <<config, repos, fs, flag, runs, result, cmd, stage, tasks,
                   next, selected, output, outcome, pulled>>
    /\ UNCHANGED <<fetched, report>>
    /\ UNCHANGED args
    /\ UNCHANGED storeVars

\* a worker completes fetch_from_origin
finish_fetch(w) ==
    /\ cmd = "fetch"
    /\ stage = "imap"
    /\ busy[w] # 0
    /\ \E rc \in {0, 1} :
           results' = [results EXCEPT
                          ![busy[w]] = fetch_from_origin(tasks[busy[w]], rc)]
    /\ busy' = [busy EXCEPT ![w] = 0]
    /\ UNCHANGED <<config, repos, fs, flag, runs, result, cmd, stage, tasks,
                   next, selected, output, outcome, pulled>>
    /\ UNCHANGED <<fetched, report>>
    /\ UNCHANGED args
    /\ UNCHANGED storeVars

\* imap_unordered is exhausted and fetch returns
fetch_return ==
    /\ cmd = "fetch"
    /\ stage = "imap"
    /\ ImapOver
    /\ Finish("exit0")
    /\ UNCHANGED <<config, repos, fs, flag, runs, result, cmd, tasks, next,
                   busy, results, selected, output, pulled>>
    /\ UNCHANGED <<fetched, report>>
    /\ UNCHANGED args
    /\ UNCHANGED storeVars

\* starmap returns in check_paths and check prints the report
check_report ==
    /\ cmd = "check"
    /\ stage = "starmap"
    /\ AllReady
    /\ IF PoolRaised
       THEN Finish("KeyError") /\ UNCHANGED output
       ELSE LET loop == check_paths_loop(results) IN
            IF loop.raised
            THEN Finish("AssertionError") /\ UNCHANGED output
            ELSE Finish("exit0") /\ output' = loop.output
    /\ report' = IF outcome' = "exit0" THEN report_lines(output') ELSE <<>>
    /\ UNCHANGED <<config, repos, fs, flag, runs, result, cmd, tasks, next,
                   busy, results, selected, pulled, fetched>>
    /\ UNCHANGED args
    /\ UNCHANGED storeVars

\* starmap returns in check_paths_with_exit_code and check exits
check_quiet_exit ==
    /\ cmd = "quiet"
    /\ stage = "starmap"
    /\ AllReady
    /\ IF PoolRaised
       THEN Finish("KeyError")
       ELSE Finish(IF exit_code_loop(results) = 1 THEN "exit1" ELSE "exit0")
    /\ UNCHANGED <<config, repos, fs, flag, runs, result, cmd, tasks, next,
                   busy, results, selected, output, pulled>>
    /\ UNCHANGED <<fetched, report>>
    /\ UNCHANGED args
    /\ UNCHANGED storeVars

\* starmap returns in check_paths and pull selects the repos to pull
pull_select ==
    /\ cmd = "pull"
    /\ stage = "starmap"
    /\ AllReady
    /\ IF PoolRaised
       THEN /\ Finish("KeyError")
            /\ UNCHANGED <<output, tasks, next, results>>
       ELSE LET loop == check_paths_loop(results) IN
            IF loop.raised
            THEN /\ Finish("AssertionError")
                 /\ UNCHANGED <<output, tasks, next, results>>
            ELSE /\ output' = loop.output
                 /\ IF Len(paths_to_pull(loop.output)) = 0
                    THEN Finish("exit0") /\ UNCHANGED <<tasks, next, results>>
                    ELSE /\ stage' = "imap"
                         /\ tasks' = paths_to_pull(loop.output)
                         /\ next' = 1
                         /\ results' = Pending(Len(paths_to_pull(loop.output)))
                         /\ UNCHANGED outcome
    /\ UNCHANGED <<config, repos, fs, flag, runs, result, cmd, busy, selected,
                   pulled>>
    /\ UNCHANGED <<fetched, report>>
    /\ UNCHANGED args
    /\ UNCHANGED storeVars

\* imap_unordered is exhausted and pull returns
pull_return ==
    /\ cmd = "pull"
    /\ stage = "imap"
    /\ ImapOver
    /\ Finish("exit0")
    /\ UNCHANGED <<config, repos, fs, flag, runs, result, cmd, tasks, next,
                   busy, results, selected, output, pulled>>
    /\ UNCHANGED <<fetched, report>>
    /\ UNCHANGED args
    /\ UNCHANGED storeVars
Next ==
    \/ \E path \in ArgLists, all \in BOOLEAN, include_ignored \in BOOLEAN,
          quiet \in BOOLEAN : check(path, all, include_ignored, quiet)
    \/ \E path \in ArgLists, include_ignored \in BOOLEAN :
          pull(path, include_ignored)
    \/ \E path \in ArgLists, include_ignored \in BOOLEAN :
          fetch(path, include_ignored)
    \/ \E w \in Workers : take_task(w)
    \/ \E w \in Workers : finish_check(w)
    \/ \E w \in Workers : finish_pull(w)
    \/ check_report
    \/ check_quiet_exit
    \/ pull_select
    \/ pull_return
    \/ \E w \in Workers : finish_fetch(w)
    \/ fetch_return

Spec == Init /\ [][Next]_vars

\* what one worker process does: take a task, run it to its end
WorkerStep(w) ==
    take_task(w) \/ finish_check(w) \/ finish_pull(w) \/ finish_fetch(w)

\* what the main process does once the Pool has the tasks
MainStep ==
    check_report \/ check_quiet_exit \/ pull_select \/ pull_return
    \/ fetch_return

\* the batches of the fair runs: every path or the first path only is
\* tracked, and all working copies are in the same state
FairInit ==
    /\ Init
    /\ SeqToSet(config.sections) \in {Paths, {1}}
    /\ \E e \in BatchEnvs :
           \A p \in SeqToSet(config.sections) : repos[p] = e

\* every process is scheduled again and again, and every git command a
\* worker runs returns
FairSpec ==
    /\ FairInit
    /\ [][Next]_vars
    /\ WF_vars(MainStep)
    /\ \A w \in Workers : WF_vars(WorkerStep(w))

\* stores begun by the earlier revision in which ignore and unignore have
\* set the option of every section
IgnoredStores ==
    UNION {{Store(Ascending(tracked),
                  [p \in tracked |-> [url |-> "u1", ignore |-> ign[p]]],
                  "false") : ign \in [tracked -> {"true", "false"}]}
              : tracked \in SUBSET Paths}

\* the batches over stores with ignored paths: all working copies are in
\* the same state
IgnoredInit ==
    /\ config \in IgnoredStores
    /\ \E e \in BatchEnvs : repos = [p \in Paths |-> e]
    /\ fs = [p \in Paths |-> "git"]
    /\ flag = FALSE
    /\ runs = 0
    /\ result = NoResult
    /\ BatchIdle

SpecIgnored == IgnoredInit /\ [][Next]_vars

\* ------------------------------------------------------------------------
\* The commands that edit the store: track, untrack, ignore, unignore.
\* Each reads the store, loops over its path arguments and writes the store
\* back if the loop ran to its end and changed something.
\* ------------------------------------------------------------------------
\* config.add_section(path); config[path]['url'] = url
add_section(cfg, path, url) ==
    Store(Append(cfg.sections, path),
          [q \in SeqToSet(cfg.sections) \cup {path} |->
              IF q = path THEN [url |-> url, ignore |-> "unset"]
              ELSE cfg.rec[q]],
          cfg.dflt)

remove_section_keeps_options(cfg, path) ==
    LET Other(q) == q # path IN
    Store(SelectSeq(cfg.sections, Other), cfg.rec, cfg.dflt)
\* config.remove_section(path)
remove_section(cfg, path) ==
    LET Other(q) == q # path IN
    Store(SelectSeq(cfg.sections, Other),
          [q \in SeqToSet(cfg.sections) \ {path} |-> cfg.rec[q]],
          cfg.dflt)

\* config[path]['ignore'] = value
set_ignore(cfg, path, value) ==
    [cfg EXCEPT !.rec[path].ignore = value]

\* the state of a command inside its loop: the store in memory, the changed
\* flag, whether the loop goes on, was left by return, or by an exception,
\* and what print_error has printed
LoopState(cfg, changed, how, errs) ==
    [cfg |-> cfg, changed |-> changed, how |-> how, errs |-> errs]

\* print_error(message, path)
print_error(st, message, path) ==
    [st EXCEPT !.errs = Append(@, [message |-> message, path |-> path])]

\* the path has been accepted: the store in memory is cfg now
Accept(st, cfg) == LoopState(cfg, TRUE, "loop", st.errs)

track_step_without_marker_check(st, path, disk, envs) ==
    IF has_section(st.cfg, path)
    THEN print_error(st, "already being tracked", path)
    ELSE LET url == get_repo_url(envs[path]) IN
         IF IsInt(url) THEN print_error(st, "error getting git URL", path)
         ELSE Accept(st, add_section(st.cfg, path, url.s))
track_step_without_url_check(st, path, disk, envs) ==
    IF has_section(st.cfg, path)
    THEN print_error(st, "already being tracked", path)
    ELSE IF disk[path] # "git"
    THEN print_error(st, "not a git directory", path)
    ELSE Accept(st, add_section(st.cfg, path, get_repo_url(envs[path]).s))
\* the body of the loop of track for one path
track_step(st, path, disk, envs) ==
    IF has_section(st.cfg, path)
    THEN print_error(st, "already being tracked", path)
    ELSE IF disk[path] # "git"
    THEN print_error(st, "not a git directory", path)
    ELSE LET url == get_repo_url(envs[path]) IN
         IF IsInt(url) THEN print_error(st, "error getting git URL", path)
         ELSE Accept(st, add_section(st.cfg, path, url.s))

\* the body of the loop of untrack for one path
untrack_step(st, path) ==
    IF ~has_section(st.cfg, path)
    THEN print_error(st, "already not being tracked", path)
    ELSE Accept(st, remove_section(st.cfg, path))

\* the body of the loops of ignore (value "true") and unignore ("false")
ignore_step(st, path, value) ==
    IF ~has_section(st.cfg, path)
    THEN print_error(st, "not being tracked", path)
    ELSE IF config_ignore(st.cfg, path) = "KeyError"
    THEN [st EXCEPT !.how = "KeyError"]
    ELSE IF config_ignore(st.cfg, path) = value
    THEN [print_error(st, IF value = "true" THEN "already ignored"
                          ELSE "already un-ignored", path)
             EXCEPT !.how = "return"]
    ELSE Accept(st, set_ignore(st.cfg, path, value))

RECURSIVE track_loop(_, _, _, _)
track_loop(path, st, disk, envs) ==
    IF path = <<>> \/ st.how # "loop" THEN st
    ELSE track_loop(Tail(path), track_step(st, Head(path), disk, envs),
                    disk, envs)

RECURSIVE untrack_loop(_, _)
untrack_loop(path, st) ==
    IF path = <<>> \/ st.how # "loop" THEN st
    ELSE untrack_loop(Tail(path), untrack_step(st, Head(path)))

RECURSIVE ignore_loop(_, _, _)
ignore_loop(path, st, value) ==
    IF path = <<>> \/ st.how # "loop" THEN st
    ELSE ignore_loop(Tail(path), ignore_step(st, Head(path), value), value)

writes_config_unconditionally(st) == st.how = "loop"
\* if changed: write_config(), reached at the end of the loop only
writes_config(st) == st.how = "loop" /\ st.changed

\* the store on disk after the command
write_config(cfg, st) ==
    IF writes_config(st) THEN st.cfg ELSE cfg

\* click.Path(exists=True) of track and unignore: a path argument that does
\* not exist ends the invocation before the command runs
click_exists(path, disk) ==
    \A i \in 1..Len(path) : disk[path[i]] # "missing"

\* a working copy whose origin URL cannot be read
NoOrigin == [BatchEnv(TRUE, FALSE, FALSE) EXCEPT !.url = [rc |-> 1, out |-> ""]]

\* a working copy whose origin URL is the other one
Moved == [BatchEnv(TRUE, FALSE, FALSE) EXCEPT !.url = [rc |-> 0, out |-> "u2"]]

IgnoreValues == {"unset", "true", "false"}

\* stores of the present revision, where no section and no [DEFAULT] has an
\* ignore option, and stores begun by the earlier revision, where [DEFAULT]
\* has it and ignore and unignore have set it in sections
StoreStores ==
    {Store(Ascending(tracked),
           [p \in tracked |-> [url |-> "u1", ignore |-> "unset"]],
           "unset") : tracked \in SUBSET Paths}
    \cup UNION {{Store(Ascending(tracked),
                       [p \in tracked |-> [url |-> "u1", ignore |-> ign[p]]],
                       "false") : ign \in [tracked -> IgnoreValues]}
                   : tracked \in SUBSET Paths}

\* one or two different directories as the path arguments
StoreArgLists ==
    {<<p>> : p \in Paths}
    \cup UNION {{<<p, q>> : q \in Paths \ {p}} : p \in Paths}

\* a working copy with origin URL u1, as the stores record it
Usual(disk, envs, p) ==
    disk[p] = "git" /\ envs[p] = BatchEnv(TRUE, FALSE, FALSE)

\* at most one path is unusual: a directory that is no working copy, a
\* directory that is gone, a working copy without origin URL or with the
\* other one
StoreInit ==
    /\ config \in StoreStores
    /\ fs \in [Paths -> {"git", "dir", "missing"}]
    /\ repos \in [Paths -> {BatchEnv(TRUE, FALSE, FALSE), NoOrigin, Moved}]
    /\ Cardinality({p \in Paths : ~Usual(fs, repos, p)}) <= 1
    /\ \A p \in Paths : fs[p] # "git" => repos[p] = BatchEnv(TRUE, FALSE, FALSE)
    /\ flag = FALSE
    /\ runs = 0
    /\ result = NoResult
    /\ BatchIdle

\* the command ran on its arguments and left the store as st says
StoreCommand(command, path, st) ==
    /\ stage = "idle"
    /\ cmd' = command
    /\ selected' = path
    /\ args' = path
    /\ config' = write_config(config, st)
    /\ written' = writes_config(st)
    /\ rejected' = st.errs
    /\ Finish(IF st.how = "KeyError" THEN "KeyError" ELSE "exit0")
    /\ UNCHANGED <<repos, fs, flag, runs, result, tasks, next, busy, results,
                   output, pulled, fetched, report, clones>>

\* click refuses the arguments: the command does not run
UsageError(command, path) ==
    /\ stage = "idle"
    /\ cmd' = command
    /\ selected' = path
    /\ args' = path
    /\ Finish("usage")
    /\ UNCHANGED <<config, repos, fs, flag, runs, result, tasks, next, busy,
                   results, output, pulled, fetched, report>>
    /\ UNCHANGED storeVars

track(path) ==
    IF ~click_exists(path, fs) THEN UsageError("track", path)
    ELSE StoreCommand("track", path,
                      track_loop(path, LoopState(config, FALSE, "loop", <<>>),
                                 fs, repos))

untrack(path) ==
    StoreCommand("untrack", path,
                 untrack_loop(path, LoopState(config, FALSE, "loop", <<>>)))

ignore(path) ==
    StoreCommand("ignore", path,
                 ignore_loop(path, LoopState(config, FALSE, "loop", <<>>),
                             "true"))

unignore(path) ==
    IF ~click_exists(path, fs) THEN UsageError("unignore", path)
    ELSE StoreCommand("unignore", path,
                      ignore_loop(path, LoopState(config, FALSE, "loop", <<>>),
                                  "false"))

\* the body of the loop of is-tracked for one path
is_tracked_step(st, path, quiet_if_tracked) ==
    IF ~has_section(st.cfg, path)
    THEN print_error(st, "not being tracked", path)
    ELSE IF ~quiet_if_tracked
    THEN print_error(st, "is being tracked", path)
    ELSE st

RECURSIVE is_tracked_loop(_, _, _)
is_tracked_loop(path, st, quiet_if_tracked) ==
    IF path = <<>> THEN st
    ELSE is_tracked_loop(Tail(path),
                         is_tracked_step(st, Head(path), quiet_if_tracked),
                         quiet_if_tracked)

is_tracked(path, quiet_if_tracked) ==
    StoreCommand("is-tracked", path,
                 is_tracked_loop(path, LoopState(config, FALSE, "loop", <<>>),
                                 quiet_if_tracked))

\* the lines showclone prints for the paths get_paths gave it
clone_commands(paths, include_existing, cfg, disk) ==
    LET Shown(p) == include_existing \/ disk[p] # "git"
        shown == SelectSeq(paths, Shown)
    IN  [i \in 1..Len(shown) |->
            [url |-> config_url(cfg, shown[i]), path |-> shown[i]]]

showclone(include_existing, include_ignored) ==
    /\ stage = "idle"
    /\ cmd' = "showclone"
    /\ LET kept == get_paths(<<>>, include_ignored, config, fs) IN
       IF kept.raised
       THEN Finish("KeyError") /\ UNCHANGED <<selected, clones>>
       ELSE /\ Finish("exit0")
            /\ selected' = kept.paths
            /\ clones' = clone_commands(kept.paths, include_existing, config,
                                        fs)
    /\ UNCHANGED <<config, repos, fs, flag, runs, result, tasks, next, busy,
                   results, output, pulled, fetched, report, args, rejected,
                   written>>

\* get_repo_url of the earlier revision: None on error
update_get_repo_url(path, disk, envs) ==
    IF disk[path] # "git" \/ envs[path].url.rc # 0 THEN PyNone
    ELSE PyStr(envs[path].url.out)

update_url_report_only(st, path, disk, envs) ==
    IF disk[path] = "missing" THEN [st EXCEPT !.how = "FileNotFoundError"]
    ELSE LET origin_url == update_get_repo_url(path, disk, envs) IN
         IF ~Truthy(origin_url)
         THEN print_error(st, "error getting git URL", path)
         ELSE st
\* update_url of the earlier revision for one tracked path; git cannot be
\* run in a directory that is gone
update_url(st, path, disk, envs) ==
    IF disk[path] = "missing" THEN [st EXCEPT !.how = "FileNotFoundError"]
    ELSE LET origin_url == update_get_repo_url(path, disk, envs) IN
         IF ~Truthy(origin_url)
         THEN print_error(st, "error getting git URL", path)
         ELSE IF ~PyEq(origin_url, config_url(st.cfg, path))
         THEN Accept(st, [st.cfg EXCEPT !.rec[path].url = origin_url.s])
         ELSE st

RECURSIVE update_loop(_, _, _, _)
update_loop(path, st, disk, envs) ==
    IF path = <<>> \/ st.how # "loop" THEN st
    ELSE update_loop(Tail(path), update_url(st, Head(path), disk, envs),
                     disk, envs)

\* the update command of the earlier revision: main writes the [DEFAULT]
\* section it does not find, then update_url runs on every tracked path,
\* whatever the path arguments, and writes the store after each change
update(path) ==
    /\ stage = "idle"
    /\ cmd' = "update"
    /\ args' = path
    /\ selected' = config.sections
    /\ LET st == update_loop(config.sections,
                             LoopState([config EXCEPT !.dflt = "false"],
                                       FALSE, "loop", <<>>),
                             fs, repos)
       IN  /\ config' = st.cfg
           /\ rejected' = st.errs
           /\ Finish(IF st.how = "loop" THEN "exit0" ELSE st.how)
    /\ written' = TRUE
    /\ UNCHANGED <<repos, fs, flag, runs, result, tasks, next, busy, results,
                   output, pulled, fetched, report, clones>>

StoreNext ==
    \/ \E path \in {<<>>} \cup {<<p>> : p \in Paths} : update(path)
    \/ \E path \in StoreArgLists, quiet_if_tracked \in BOOLEAN :
          is_tracked(path, quiet_if_tracked)
    \/ \E include_existing \in BOOLEAN, include_ignored \in BOOLEAN :
          showclone(include_existing, include_ignored)
    \/ \E path \in StoreArgLists : track(path)
    \/ \E path \in StoreArgLists : untrack(path)
    \/ \E path \in StoreArgLists : ignore(path)
    \/ \E path \in StoreArgLists : unignore(path)

SpecStore == StoreInit /\ [][StoreNext]_vars

\* ------------------------------------------------------------------------
\* Properties of the batch runners
\* ------------------------------------------------------------------------
\* the invocation is over and had handed its paths to the Pool
Batched(command) ==
    /\ cmd = command
    /\ stage = "done"
    /\ outcome \in {"exit0", "exit1", "AssertionError"} \/ PoolRaised

\* what classifying the path alone, without even_if_uptodate, gives
Alone(path) == checkrepo(path, FALSE, config, repos[path])

HasChanges(path) == Alone(path).kind = "dict"

AllTracked == \A i \in 1..Len(selected) : has_section(config, selected[i])

\* C3: in collect mode a repo whose classification returned -1 is left out
\* of the result list and does not abort the batch: the statuses of the other
\* paths are returned and the run ends normally.
C3_ProbeFailedOmittedNotFatal ==
    (/\ Batched("check")
     /\ AllTracked
     /\ \E i \in 1..Len(results) : results[i].kind = "int")
        => /\ outcome = "exit0"
           /\ output = SelectSeq(results, IsDict)

\* C5: the quiet batch ends with exit code 1 iff some path of the set has a
\* non-empty changes list when classified without even_if_uptodate, and with
\* exit code 0 otherwise, whatever --all is.
C5_QuietExitCodeIffChanges ==
    Batched("quiet") =>
        outcome = IF \E i \in 1..Len(selected) : HasChanges(selected[i])
                  THEN "exit1" ELSE "exit0"

\* C6: in quiet mode, once a classification with changes has completed, no
\* task that is still queued is started.
C6_NothingStartedAfterFirstChange ==
    [][(/\ cmd = "quiet"
        /\ stage = "starmap"
        /\ \E i \in 1..Len(results) : results[i].kind = "True")
           => next' = next]_vars

\* C7: in quiet mode a -1 never counts as a change: exit code 1 is only due
\* to a path with changes, a path set of clean and failing repos gives exit
\* code 0, and every path of it was examined.
C7_ProbeFailedIsNotAChange ==
    /\ (Batched("quiet") /\ outcome = "exit1")
           => \E i \in 1..Len(selected) : HasChanges(selected[i])
    /\ (/\ Batched("quiet")
        /\ \A i \in 1..Len(selected) :
               Alone(selected[i]).kind \in {"None", "int"})
           => /\ outcome = "exit0"
              /\ Len(results) = Len(selected)
              /\ \A i \in 1..Len(selected) :
                     results[i].kind \in {"False", "int"}

\* the first path failed, a later one was examined and is clean
C7_Witness ==
    /\ Batched("quiet")
    /\ outcome = "exit0"
    /\ Len(selected) >= 2
    /\ results[1].kind = "int"
    /\ results[Len(selected)].kind = "False"

\* C8: pull calls pull_from_origin on exactly the selected repos whose
\* changes are [pull-required].
C8_PullsExactlyPullRequired ==
    (/\ cmd = "pull"
     /\ stage = "done"
     /\ AllTracked)
        => SeqToSet(pulled) =
               {path \in SeqToSet(selected) :
                    Alone(path).kind = "dict"
                    /\ Alone(path).changes = <<"pull-required">>}

\* how often the path occurs in the sequence of paths
Occurrences(seq, path) == Cardinality({i \in 1..Len(seq) : seq[i] = path})

\* the paths of the first sequence are called once each by the second one
OnceEach(wanted, called) ==
    /\ Len(called) = Len(wanted)
    /\ \A i \in 1..Len(wanted) :
           Occurrences(called, wanted[i]) = Occurrences(wanted, wanted[i])

\* C18: fetch calls fetch_from_origin exactly once on every path it selected
\* and pull calls pull_from_origin exactly once on every repo it selected
\* for pulling; a call that failed gives -1 for its own path and neither
\* prevents nor cancels the call on any other path.
C18_EveryPathOnceDespiteFailures ==
    /\ (cmd = "fetch" /\ stage = "done" /\ outcome = "exit0")
           => /\ OnceEach(selected, fetched)
              /\ Len(results) = Len(selected)
              /\ \A i \in 1..Len(selected) :
                     /\ results[i].kind \in {"str", "int"}
                     /\ results[i].path = selected[i]
    /\ (cmd = "pull" /\ stage = "done" /\ outcome = "exit0")
           => /\ OnceEach(paths_to_pull(output), pulled)
              /\ paths_to_pull(output) # <<>>
                     => /\ Len(results) = Len(paths_to_pull(output))
                        /\ \A i \in 1..Len(results) :
                               /\ results[i].kind \in {"str", "int"}
                               /\ results[i].path = paths_to_pull(output)[i]

\* the fetch of the first path failed, the fetch of a later one was made
\* and succeeded
C18_Witness ==
    /\ cmd = "fetch"
    /\ stage = "done"
    /\ Len(selected) = NumPaths
    /\ results[1].kind = "int"
    /\ results[NumPaths].kind = "str"
    /\ fetched[NumPaths] = selected[NumPaths]

\* C19: the report of check has one line for each status of the output, in
\* ascending order of path, whatever the order of the arguments and the
\* order in which the workers completed.
C19_ReportSortedByPath ==
    (Batched("check") /\ outcome = "exit0")
        => /\ Len(report) = Len(output)
           /\ \A i \in 1..Len(output) :
                  \E j \in 1..Len(report) : report[j] = output[i]
           /\ \A i, j \in 1..Len(report) :
                  i < j => report[i].path <= report[j].path

\* the output came back in descending order of path
C19_Witness ==
    /\ Batched("check")
    /\ outcome = "exit0"
    /\ Len(report) >= 2
    /\ output[1].path > output[2].path
    /\ report[1].path < report[2].path

\* the command does not reject the path: it is a working copy with an origin
\* URL that is not tracked yet (track), it is tracked (untrack), it is
\* tracked and not ignored yet (ignore), it is tracked and ignored (unignore)
Accepted(command, path, cfg) ==
    CASE command = "track" ->
             /\ ~has_section(cfg, path)
             /\ fs[path] = "git"
             /\ ~IsInt(get_repo_url(repos[path]))
      [] command = "untrack" -> has_section(cfg, path)
      [] command = "ignore" ->
             has_section(cfg, path) /\ config_ignore(cfg, path) = "false"
      [] command = "unignore" ->
             has_section(cfg, path) /\ config_ignore(cfg, path) = "true"
      [] OTHER -> FALSE

\* the store shows the action of the command on the path
Applied(command, path, cfg) ==
    CASE command = "track" ->
             /\ has_section(cfg, path)
             /\ cfg.rec[path].url = repos[path].url.out
      [] command = "untrack" -> ~has_section(cfg, path)
      [] command = "ignore" ->
             has_section(cfg, path) /\ cfg.rec[path].ignore = "true"
      [] command = "unignore" ->
             has_section(cfg, path) /\ cfg.rec[path].ignore = "false"
      [] OTHER -> FALSE

\* C20: track, untrack, ignore and unignore with several paths skip a
\* rejected path alone: when the command ends without an exception, its
\* action has been applied to every path it does not reject, before and
\* after a rejected one, and the store on disk shows it.
C20_RejectedPathSkippedAlone ==
    [][(/\ stage = "idle"
        /\ cmd' \in {"track", "untrack", "ignore", "unignore"}
        /\ outcome' = "exit0")
           => \A i \in 1..Len(selected') :
                  Accepted(cmd', selected'[i], config)
                      => Applied(cmd', selected'[i], config')]_vars

\* print_error was called for the path
Reported(errs, path) == \E j \in 1..Len(errs) : errs[j].path = path

\* C21: track rejects a directory without the .git marker: the command ends
\* without an exception, a diagnostic names the path, no section is added
\* for it, a section it already had is left as it was, and if no other
\* argument is accepted the store is neither changed nor written.
C21_TrackRejectsNonWorkingCopy ==
    [][(stage = "idle" /\ cmd' = "track" /\ outcome' # "usage")
          => \A i \in 1..Len(args') :
                 fs[args'[i]] = "dir"
                     => /\ outcome' = "exit0"
                        /\ Reported(rejected', args'[i])
                        /\ has_section(config', args'[i])
                               = has_section(config, args'[i])
                        /\ has_section(config, args'[i])
                               => config'.rec[args'[i]] = config.rec[args'[i]]
                        /\ (\A j \in 1..Len(args') :
                                ~Accepted("track", args'[j], config))
                               => config' = config /\ ~written']_vars

\* track was given a directory without .git and a working copy: the first
\* is reported and not tracked, the second is tracked and written
C21_Witness ==
    /\ cmd = "track"
    /\ outcome = "exit0"
    /\ Len(args) = 2
    /\ fs[args[1]] = "dir"
    /\ ~has_section(config, args[1])
    /\ \E j \in 1..Len(rejected) :
           rejected[j] = [message |-> "not a git directory", path |-> args[1]]
    /\ has_section(config, args[2])
    /\ written

\* the tracked paths whose ignore flag is not set and which are working
\* copies on disk
TrackedNotIgnored ==
    {p \in SeqToSet(config.sections) :
         config.rec[p].ignore # "true" /\ fs[p] = "git"}

\* C22: with no path arguments check, fetch and pull work on exactly the
\* tracked paths that are not ignored and exist as working copies; the
\* [DEFAULT] record is no path.
C22_NoPathsMeansTrackedNotIgnored ==
    (/\ cmd \in {"check", "quiet", "fetch", "pull"}
     /\ args = <<>>
     /\ outcome # "usage")
        => /\ outcome # "KeyError"
           /\ SeqToSet(selected) = TrackedNotIgnored
           /\ Len(selected) = Cardinality(TrackedNotIgnored)

StoreCommands == {"track", "untrack", "ignore", "unignore"}

\* C23: an invocation of the present revision writes the store only after
\* it changed a record: the write belongs to a track, untrack, ignore or
\* unignore that accepted one of its paths, an invocation that rejects every
\* path writes nothing, and without a write (check, fetch, pull, showclone,
\* is-tracked) the store stays as it was.
C23_WrittenOnlyAfterMutation ==
    [][cmd' # "update"
          => /\ written'
                 => /\ cmd' \in StoreCommands
                    /\ \E i \in 1..Len(args') :
                           Accepted(cmd', args'[i], config)
             /\ ~written' => config' = config]_vars

\* ignore was given two paths that are not tracked: nothing was written
C23_Witness ==
    /\ cmd = "ignore"
    /\ outcome = "exit0"
    /\ Len(args) = 2
    /\ Len(rejected) = 2
    /\ \A i \in 1..2 : ~has_section(config, args[i])
    /\ ~written

\* C24: showclone prints a git clone command for every tracked repo that is
\* not ignored and whose working copy is missing on disk (with or without
\* --include-existing, which adds the repos that exist).
C24_ShowcloneListsMissingRepos ==
    (cmd = "showclone" /\ outcome = "exit0")
        => \A p \in SeqToSet(config.sections) :
               (config.rec[p].ignore # "true" /\ fs[p] # "git")
                   => \E j \in 1..Len(clones) :
                          /\ clones[j].path = p
                          /\ clones[j].url = config_url(config, p)

\* the origin URL of the tracked path can be obtained
OriginObtainable(p) ==
    fs[p] = "git" /\ repos[p].url.rc = 0 /\ repos[p].url.out # ""

\* C25: update sets the stored URL of every tracked repo to the repo's
\* present origin URL, after which classifying the repo does not report
\* url-mismatch, and leaves the record as it was when the origin URL cannot
\* be obtained.
C25_UpdateRefreshesURL ==
    [][(stage = "idle" /\ cmd' = "update" /\ outcome' = "exit0")
          => \A p \in SeqToSet(config.sections) :
                 /\ has_section(config', p)
                 /\ config'.rec[p].ignore = config.rec[p].ignore
                 /\ IF OriginObtainable(p)
                    THEN /\ config'.rec[p].url = repos[p].url.out
                         /\ ~Contains(checkrepo(p, FALSE, config',
                                                repos[p]).changes,
                                      "url-mismatch")
                    ELSE config'.rec[p].url = config.rec[p].url]_vars

\* update has replaced the URL of a repo whose origin had moved
C25_Witness ==
    /\ cmd = "update"
    /\ outcome = "exit0"
    /\ \E p \in SeqToSet(config.sections) :
           /\ repos[p] = Moved
           /\ config.rec[p].url = "u2"
           /\ ~Contains(checkrepo(p, FALSE, config, repos[p]).changes,
                        "url-mismatch")

\* what classifying the i-th selected path alone, with the flag of the
\* invocation, returns
AloneResults ==
    [i \in 1..Len(selected) |->
        checkrepo(selected[i], flag, config, repos[selected[i]])]

\* C27: the result of the collect-mode batch does not depend on the
\* interleaving of the workers: every selected path has one result, the one
\* its classification alone returns; the list returned holds the non-empty
\* ones, one for each such path, in the order of the paths; and a result is
\* written once, by the worker that ran that path, which touches no other
\* path's working copy.
C27_CollectIndependentOfInterleaving ==
    /\ [](Batched("check")
             => /\ results = AloneResults
                /\ outcome = "exit0"
                       => output = SelectSeq(AloneResults, IsDict))
    /\ [][cmd = "check" /\ stage = "starmap"
             => /\ \A i \in 1..Len(results) :
                       results'[i] # results[i]
                           => /\ results[i] = NoResult
                              /\ \E w \in Workers : busy[w] = i /\ busy'[w] = 0
                /\ \A p \in Paths :
                       repos'[p] # repos[p]
                           => \E w \in Workers :
                                  /\ busy[w] # 0
                                  /\ tasks[busy[w]] = p
                                  /\ busy'[w] = 0]_vars

\* every path was classified; the first has nothing to report, two later
\* ones have and are in the list
C27_Witness ==
    /\ Batched("check")
    /\ outcome = "exit0"
    /\ Len(selected) = NumPaths
    /\ results[1].kind = "None"
    /\ Len(output) = NumPaths - 1

C29_RecordsComeFromTrack ==
    [][(stage = "idle" /\ cmd' \in StoreCommands)
          => \A p \in Paths :
                 /\ has_section(config', p)
                        => \/ /\ has_section(config, p)
                              /\ config'.rec[p].url = config.rec[p].url
                              /\ cmd' = "track"
                                     => config'.rec[p] = config.rec[p]
                           \/ /\ ~has_section(config, p)
                              /\ cmd' = "track"
                              /\ p \in SeqToSet(args')
                              /\ fs[p] = "git"
                              /\ repos[p].url.rc = 0
                              /\ config'.rec[p].url = repos[p].url.out
                 /\ (cmd' = "untrack" /\ p \in SeqToSet(args'))
                        => ~has_section(config', p)]_vars

\* track was given a tracked path and a new working copy: the new section
\* has the URL of its origin
C29_Witness ==
    /\ cmd = "track"
    /\ written
    /\ Len(args) = 2
    /\ Reported(rejected, args[1])
    /\ has_section(config, args[1])
    /\ has_section(config, args[2])
    /\ repos[args[2]] = Moved
    /\ config.rec[args[2]].url = "u2"

\* the tasks that were taken from the queue and have no result yet
InFlight == {i \in 1..Len(results) : i < next /\ results[i].kind = "pending"}

\* C30: at no time are more tasks (classifications, fetches, pulls) in
\* flight than the Pool has workers: every task in flight is run by one
\* worker, and a worker runs one task at a time.
C30_InFlightWithinPoolSize ==
    /\ Cardinality(InFlight) <= PoolSize
    /\ \A i \in InFlight :
           Cardinality({w \in Workers : busy[w] = i}) = 1
    /\ \A w \in Workers : busy[w] # 0 => busy[w] \in InFlight

\* every worker runs a task and another task waits in the queue
C30_Witness ==
    /\ Cardinality(InFlight) = PoolSize
    /\ next <= Len(tasks)

\* the state of a command before its loop
Entry(cfg) == LoopState(cfg, FALSE, "loop", <<>>)

\* the record of p as the commands run next read it: the flag reads as
\* false, a batch with no path arguments takes p in, ignore marks it and
\* unignore reports it as already un-ignored
FlagReadsFalse(cfg, disk, p) ==
    /\ config_ignore(cfg, p) = "false"
    /\ LET kept == get_paths(<<>>, FALSE, cfg, disk) IN
           ~kept.raised /\ p \in SeqToSet(kept.paths)
    /\ LET st == ignore_loop(<<p>>, Entry(cfg), "true") IN
           /\ writes_config(st)
           /\ config_ignore(st.cfg, p) = "true"
    /\ LET st == ignore_loop(<<p>>, Entry(cfg), "false") IN
           /\ st.how # "KeyError"
           /\ \E j \in 1..Len(st.errs) :
                  st.errs[j] = [message |-> "already un-ignored", path |-> p]

\* C31: the record that track writes for a path into a store without
\* records has a readable ignore flag that is false: check, fetch and pull
\* with no paths take the path in, ignore sets the flag to true and unignore
\* reports 'already un-ignored'.
C31_FreshRecordNotIgnored ==
    [][(/\ cmd' = "track"
        /\ Len(config.sections) = 0
        /\ written')
           => \A p \in SeqToSet(config'.sections) :
                  FlagReadsFalse(config', fs, p)]_vars

\* the step is the start of check, pull or fetch on these arguments
BatchStart(path, include_ignored) ==
    \/ \E all \in BOOLEAN, quiet \in BOOLEAN :
           check(path, all, include_ignored, quiet)
    \/ pull(path, include_ignored)
    \/ fetch(path, include_ignored)

\* the paths of the invocation: the arguments, or every tracked path
Given(path) == IF path = <<>> THEN config.sections ELSE path

FlaggedIgnored(p) == has_section(config, p) /\ config.rec[p].ignore = "true"

\* C32: a tracked path whose ignore flag is true is not classified, fetched
\* or pulled by an invocation without include-ignored, whether the path is
\* named on the command line or not; with include-ignored the invocation
\* works on it as on every other path. What a batch classifies, fetches and
\* pulls is chosen when it starts.
C32_IgnoredPathsLeftOut ==
    /\ [][\A path \in ArgLists, include_ignored \in BOOLEAN :
              BatchStart(path, include_ignored)
                  => LET Wanted(p) == include_ignored \/ ~FlaggedIgnored(p)
                         wanted == SelectSeq(Given(path), Wanted)
                     IN  IF stage' = "done"
                         THEN wanted = <<>> /\ outcome' \in {"usage", "exit0"}
                         ELSE selected' = wanted /\ tasks' = wanted]_vars
    /\ [][stage # "idle" => selected' = selected /\ config' = config]_vars
    /\ [](/\ SeqToSet(tasks) \subseteq SeqToSet(selected)
          /\ SeqToSet(pulled) \subseteq SeqToSet(selected)
          /\ SeqToSet(fetched) \subseteq SeqToSet(selected)
          /\ \A i \in 1..Len(output) : Contains(selected, output[i].path))

\* an invocation that names every path has worked on the others and left
\* out an ignored one
C32_Witness ==
    /\ cmd \in {"check", "quiet", "fetch", "pull"}
    /\ stage = "done"
    /\ outcome = "exit0"
    /\ args # <<>>
    /\ selected # <<>>
    /\ \E p \in SeqToSet(args) : FlaggedIgnored(p) /\ ~Contains(selected, p)

\* how many of these kinds the changes list holds, repetitions counted
Count(changes, kinds) ==
    Cardinality({i \in 1..Len(changes) : changes[i] \in kinds})

\* the snapshot with no upstream configured: git diff @{u}.. cannot
\* resolve the upstream either and exits with 128
WithoutUpstream(e) ==
    [e EXCEPT !.remote = [rc |-> 128, out |-> 0,
                          err |-> "no upstream configured"],
              !.diff_rc = 128]

\* C33: a changes list holds every kind at most once, at most one of
\* origin-url-error and url-mismatch, at most one of no-upstream-branch,
\* pull-required and diverged, and never pull-required together with
\* unpushed; unpushed does occur together with diverged and together with
\* no-upstream-branch.
C33_KindsOnceAndExclusive ==
    Classified =>
        /\ \A i \in 1..Len(result.changes) : result.changes[i] \in ChangeKinds
        /\ \A kind \in ChangeKinds : Count(result.changes, {kind}) <= 1
        /\ Count(result.changes, {"origin-url-error", "url-mismatch"}) <= 1
        /\ Count(result.changes,
                 {"no-upstream-branch", "pull-required", "diverged"}) <= 1
        /\ Count(result.changes, {"pull-required", "unpushed"}) <= 1

\* a diverged working copy with unpushed commits, which without its
\* upstream is classified as no-upstream-branch and unpushed
C33_Witness ==
    /\ Classified
    /\ Contains(result.changes, "diverged")
    /\ Contains(result.changes, "unpushed")
    /\ LET other == checkrepo(ThePath, flag, config, WithoutUpstream(Snapshot))
       IN  /\ Contains(other.changes, "no-upstream-branch")
           /\ Contains(other.changes, "unpushed")

\* the store on disk after one invocation of the command on the store cfg
after_track(cfg, path) ==
    write_config(cfg, track_loop(path, Entry(cfg), fs, repos))
after_untrack(cfg, path) == write_config(cfg, untrack_loop(path, Entry(cfg)))
after_ignore(cfg, path) ==
    write_config(cfg, ignore_loop(path, Entry(cfg), "true"))

\* the arguments for which this invocation of track added a section
Added == LET New(q) == ~has_section(config, q) /\ has_section(config', q)
         IN  SelectSeq(args', New)

\* the outcome of ignore on the store cfg
ignore_outcome(cfg, path) == ignore_loop(path, Entry(cfg), "true")

\* C34: untrack of the paths that track has just added gives the store as
\* it was before the track; untrack drops the ignore flag with the record:
\* track(p), ignore(p), untrack(p), track(p) run one after the other, ignore
\* sets the flag, and afterwards the path is tracked with a flag that reads
\* false, in the store as it was after the first track; untrack of paths
\* that are not tracked leaves the store as it is and every other record
\* alone.
C34_UntrackUndoesTrack ==
    /\ [][(stage = "idle" /\ cmd' = "track" /\ written')
             => /\ after_untrack(config', Added) = config
                /\ \A i \in 1..Len(Added) :
                       LET p == <<Added[i]>>
                           marked == after_ignore(config', p)
                           again == after_track(after_untrack(marked, p), p)
                       IN  /\ ignore_outcome(config', p).how = "loop"
                           /\ config_ignore(marked, p[1]) = "true"
                           /\ has_section(again, p[1])
                           /\ config_ignore(again, p[1]) = "false"
                           /\ again.rec = config'.rec]_vars
    /\ [][(stage = "idle" /\ cmd' = "untrack")
             => /\ \A q \in Paths :
                       has_section(config', q)
                           <=> (has_section(config, q)
                                /\ q \notin SeqToSet(args'))
                /\ \A q \in SeqToSet(config'.sections) :
                       config'.rec[q] = config.rec[q]
                /\ (\A i \in 1..Len(args') : ~has_section(config, args'[i]))
                       => config' = config /\ ~written']_vars

\* the store on disk after unignore on the store cfg, when click lets the
\* command run
after_unignore(cfg, path) ==
    write_config(cfg, ignore_loop(path, Entry(cfg), "false"))

\* the record of p has the flag value, and nothing else has changed
OnlyFlagSet(p, value) ==
    /\ outcome' = "exit0"
    /\ config' = set_ignore(config, p, value)
    /\ config'.rec[p].url = config.rec[p].url
    /\ config'.sections = config.sections
    /\ \A q \in SeqToSet(config.sections) \ {p} : config'.rec[q] = config.rec[q]

\* C35: ignore of one tracked path that is not ignored sets its flag to
\* true, and unignore of one tracked path that is ignored sets its flag to
\* false; nothing else in the store changes: the URL of the path, the other
\* records, the sections. unignore after ignore gives the flag it had
\* before. ignore of an ignored path and unignore of a path that is not
\* ignored leave its record as it is.
C35_OnlyTheFlagChanges ==
    [][(/\ stage = "idle"
        /\ cmd' \in {"ignore", "unignore"}
        /\ Len(args') = 1
        /\ has_section(config, args'[1]))
           => LET p == args'[1]
                  ignored == config.rec[p].ignore = "true"
              IN  /\ (cmd' = "ignore" /\ ~ignored)
                         => /\ OnlyFlagSet(p, "true")
                            /\ config_ignore(after_unignore(config', args'), p)
                                   = "false"
                  /\ (cmd' = "unignore" /\ ignored) => OnlyFlagSet(p, "false")
                  /\ (cmd' = "ignore" /\ ignored) => config' = config
                  /\ (cmd' = "unignore" /\ ~ignored) => config' = config]_vars

====
